---- MODULE Spec2Model ----
(***************************************************************************)
(* A state-machine model of scripts/dataPrep.py: the module-level script   *)
(* (load, reference fits, training loop, calibration, prediction of the    *)
(* calibration run, the __main__ block) and its two functions, get_concs   *)
(* and write_concs.                                                        *)
(*                                                                         *)
(* Numbers.  Amplitudes are integers in tenths (AmpOne = 1.0),             *)
(* concentrations are integers in micromol/L (Br2_conc_i = 0.00342 M =     *)
(* 3420), wavelengths are integers in nm, capture times are integers in    *)
(* seconds.  Quotients (the calibration line, the returned times and       *)
(* concentrations) are exact rationals <<numerator, denominator>> in       *)
(* lowest terms.  A division by zero gives the token pair <<s, 0>> with    *)
(* s the sign of the numerator: numpy's inf, -inf (s = 1, -1) or nan (0).  *)
(*                                                                         *)
(* scipy.optimize.curve_fit is an external, deterministic solver.  For the *)
(* Gaussian models it is an oracle: the first time it is called on an      *)
(* input it either fails to converge or returns one of a few parameter     *)
(* vectors; the answer is remembered in memo, so that the same input gets  *)
(* the same answer for the rest of the run.  For the straight line it is   *)
(* computed: ordinary least squares.                                       *)
(***************************************************************************)
EXTENDS Integers, Sequences, FiniteSets, TLC

\* ------------------------------------------------------------------ bounds
\* Spectra per dataset file.
MaxSpectra == 2
\* Spectra of the largest calibration file.
MaxPoints == 3
\* Calls made by a program that imports the module.
MaxCalls == 2

\* ------------------------------------------------------- program constants
Br2_conc_i == 3420
AmpOne == 10
BromineLow == 320
low == 360
high == 650
NumRuns == 3

\* -------------------------------------------------------------- arithmetic
Abs(n) == IF n < 0 THEN -n ELSE n

Sign(n) == IF n < 0 THEN -1 ELSE IF n > 0 THEN 1 ELSE 0

Min(a, b) == IF a < b THEN a ELSE b

RECURSIVE GCD(_, _)
GCD(a, b) == IF b = 0 THEN a ELSE GCD(b, a % b)

\* The quotient n/d in lowest terms with a positive denominator; n/0 is
\* inf, -inf or nan.
Rat(n, d) ==
    IF d = 0 THEN <<Sign(n), 0>>
    ELSE LET g == GCD(Abs(n), Abs(d))
             s == Sign(d)
         IN  <<(s * n) \div g, (s * d) \div g>>

RatOfInt(n) == <<n, 1>>

IsFinite(q) == q[2] # 0

RatMul(p, q) == Rat(p[1] * q[1], p[2] * q[2])

RatDiv(p, q) == Rat(p[1] * q[2], p[2] * q[1])

RatAdd(p, q) == Rat(p[1] * q[2] + q[1] * p[2], p[2] * q[2])

RatSub(p, q) == Rat(p[1] * q[2] - q[1] * p[2], p[2] * q[2])

RECURSIVE SumSeq(_)
SumSeq(s) == IF s = <<>> THEN 0 ELSE Head(s) + SumSeq(Tail(s))

\* --------------------------------------------------------- numpy helpers
\* np.argwhere(ws > bound)[0][0]: the first 0-based index whose entry is
\* above the bound; -1 stands for the IndexError of an empty result.
ArgFirst(ws, bound) ==
    IF \E k \in 1..Len(ws) : ws[k] > bound
    THEN (CHOOSE k \in 1..Len(ws) :
              /\ ws[k] > bound
              /\ \A j \in 1..(k - 1) : ~(ws[j] > bound)) - 1
    ELSE -1

\* s[a:b] for 0 <= a, 0 <= b.
PySlice(s, a, b) == SubSeq(s, a + 1, Min(b, Len(s)))

StrictlyIncreasing(ws) == \A k \in 1..(Len(ws) - 1) : ws[k] < ws[k + 1]

\* np.zeros(n)
Zeros(n) == [k \in 1..n |-> 0]

\* ------------------------------------------------------------ input files
\* A transposed data file: the wavelengths of its index (without the label
\* of the time row), the capture times of its first row, and one absorbance
\* column per capture time.
NoData == [wl |-> <<>>, t |-> <<>>, col |-> <<>>]

\* Wavelength axes of the training file: two good ones, one with a
\* non-increasing entry, one with no entry above the upper bound.
GoodAxis == <<340, 400, 600, 700>>

Axes ==
    { GoodAxis, <<330, 400, 500, 660>>,
      <<340, 600, 400, 700>>, <<340, 400, 600, 640>> }

\* The axis of a run file recorded on another grid.
OtherAxis == <<400, 600, 640, 700>>

\* Absorbance columns (one value per axis entry).
ColA == <<9, 5, 2, 0>>

ColB == <<9, 3, 4, 1>>

Columns == {ColA, ColB}

\* Capture times in seconds, one every minute and a half.
TimesOf(n) == [k \in 1..n |-> 90 * (k - 1)]

\* Every file of up to MaxSpectra spectra on the grid `axis`.
Datasets(axis) ==
    UNION { { [wl |-> axis, t |-> TimesOf(n), col |-> c] :
                c \in [1..n -> Columns] } : n \in 1..MaxSpectra }

Nominal(axis) == [wl |-> axis, t |-> TimesOf(2), col |-> <<ColA, ColB>>]

\* A calibration file of n spectra, all different.
CalibrationSet(axis, n) ==
    [wl |-> axis, t |-> TimesOf(n),
     col |-> [k \in 1..n |-> <<9, 6 - k, 1 + k, 0>>]]

\* A run file recorded on the training grid, and one recorded on another.
RunOnGrid(axis) == [wl |-> axis, t |-> TimesOf(2), col |-> <<ColB, ColA>>]

RunOffGrid == [wl |-> OtherAxis, t |-> <<30>>, col |-> <<ColA>>]

NominalRuns(axis) == [k \in 1..NumRuns |-> RunOnGrid(axis)]

\* The three run files: all on the training grid, or one of them on the
\* other grid.
RunFiles(axis) ==
    {NominalRuns(axis)} \cup
    { [NominalRuns(axis) EXCEPT ![k] = RunOffGrid] : k \in 1..NumRuns }

\* --------------------------------------------------------------- curve_fit
\* The outcome of one call: converged with parameters popt, or the
\* RuntimeError of a fit that did not converge.
Converged(p) == [ok |-> TRUE, popt |-> p]

NotConverged == [ok |-> FALSE, popt |-> <<>>]

\* Initial guesses (lines 41-43 and 115-117, in hundredths).
p0_Br2 == <<300, 28000, 3000, 70, 39000, 2000, 20, 46000, 2000, 2>>

NaBr3_p0 == <<30, 100, 40000, 2000, 250, 34000, 2000>>

\* curve_fit's default initial guess: every parameter 1.
DefaultP0(n) == [k \in 1..n |-> AmpOne]

\* Parameter vectors the solver may return, per model (abbreviated to the
\* entries that tell them apart).
Br2Fits == { <<29, 281, 31>> }

G5Fits == { <<3, 11, 401, 19>> }

ScalePairs == { <<10, 0>>, <<7, 5>>, <<4, 10>>, <<10, 5>> }

FitOutcomes(f) ==
    {NotConverged} \cup
    { Converged(p) : p \in (IF f = "gaussian3" THEN Br2Fits
                            ELSE IF f = "gauss5" THEN G5Fits
                            ELSE ScalePairs) }

\* One call curve_fit(f, x, y, p0), f closing over the globals env.
FitKey(f, env, x, y, p0) == [f |-> f, env |-> env, x |-> x, y |-> y, p0 |-> p0]

VARIABLES
    pc, err,                  \* position in the script; the exception that ended it
    disk,                     \* the data files
    memo,                     \* curve_fit's answers so far
    train1, train2, WLs,      \* lines 20-30
    L1, L2, xvals, yvals,     \* module globals, reassigned by every stage
    Br2opt, g5opt,            \* the reference models
    hBr2, hNaBr3, i, train2_opt,   \* the training loop
    NaBr3_conc, line,         \* the calibration
    frame,                    \* the activation of get_concs, if any
    concs,                    \* (time, cBr2, cNaBr3) of line 267
    runs, run_concs, outfiles,     \* the __main__ block
    calls, api_arg, api_concs \* an importing program: its calls so far, the
                              \* dataset and the result of its last get_concs

vars ==
    <<pc, err, disk, memo, train1, train2, WLs, L1, L2, xvals, yvals,
      Br2opt, g5opt, hBr2, hNaBr3, i, train2_opt, NaBr3_conc, line,
      frame, concs, runs, run_concs, outfiles, calls, api_arg, api_concs>>

loaded == <<train1, train2, WLs>>

window == <<L1, L2, xvals, yvals>>

references == <<Br2opt, g5opt>>

training == <<hBr2, hNaBr3, i, train2_opt>>

calibration == <<NaBr3_conc, line>>

mainBlock == <<runs, run_concs, outfiles>>

importer == <<calls, api_arg, api_concs>>

\* No activation of get_concs.
NoFrame ==
    [caller |-> -1, dataset |-> NoData, time |-> <<>>, L1 |-> -1, L2 |-> -1,
     hbr2 |-> <<>>, hnabr3 |-> <<>>, i |-> -1, g5Sopt |-> <<>>]

NoConcs == [time |-> <<>>, cBr2 |-> <<>>, cNaBr3 |-> <<>>]

\* The files on disk: the two training files, recorded on one grid, and the
\* three run files.  One file varies at a time, the others being the
\* nominal ones: the first training file, on every axis; the run files, on
\* every axis; the calibration file; and calibration files of up to
\* MaxPoints different spectra.
DiskFiles ==
    UNION { { [TRAIN1 |-> d1, TRAIN2 |-> Nominal(a), RUN |-> NominalRuns(a)] :
                d1 \in Datasets(a) }
            \cup
            { [TRAIN1 |-> Nominal(a), TRAIN2 |-> Nominal(a), RUN |-> r] :
                r \in RunFiles(a) } : a \in Axes }
    \cup
    { [TRAIN1 |-> Nominal(GoodAxis), TRAIN2 |-> d2,
       RUN |-> NominalRuns(GoodAxis)] : d2 \in Datasets(GoodAxis) }
    \cup
    { [TRAIN1 |-> Nominal(GoodAxis), TRAIN2 |-> CalibrationSet(GoodAxis, n),
       RUN |-> NominalRuns(GoodAxis)] : n \in 2..MaxPoints }

Init ==
    /\ disk \in DiskFiles
    /\ pc = "load"
    /\ err = "none"
    /\ memo = << >>
    /\ train1 = NoData /\ train2 = NoData /\ WLs = <<>>
    /\ L1 = -1 /\ L2 = -1 /\ xvals = <<>> /\ yvals = <<>>
    /\ Br2opt = <<>> /\ g5opt = <<>>
    /\ hBr2 = <<>> /\ hNaBr3 = <<>> /\ i = -1 /\ train2_opt = <<>>
    /\ NaBr3_conc = <<>> /\ line = <<>>
    /\ frame = NoFrame
    /\ concs = NoConcs
    /\ runs = <<>> /\ run_concs = <<>> /\ outfiles = << >>
    /\ calls = 0 /\ api_arg = NoData /\ api_concs = NoConcs

\* The script is at position p and no exception has ended it.
At(p) == pc = p /\ err = "none"

\* The solver answers `out` to the call `key`: any outcome on a new input,
\* the remembered one on an input seen before.
Solve(key, out) ==
    /\ out \in FitOutcomes(key.f)
    /\ key \in DOMAIN memo => out = memo[key]
    /\ memo' = IF key \in DOMAIN memo THEN memo ELSE (key :> out) @@ memo

\* ----------------------------------------------------------- lines 19-30
Load ==
    /\ At("load")
    /\ train1' = disk.TRAIN1
    /\ train2' = disk.TRAIN2
    /\ WLs' = disk.TRAIN1.wl
    /\ pc' = "windowBr2"
    /\ UNCHANGED <<err, disk, memo, window, references, training,
                   calibration, frame, concs, mainBlock, importer>>

\* L1 = np.argwhere(WLs > lo)[0][0]; L2 = np.argwhere(WLs > high)[0][0];
\* xvals, yvals = WLs[L1:L2], column[L1:L2].  An empty argwhere raises
\* IndexError at its line.
SetWindow(lo, column, next) ==
    LET a == ArgFirst(WLs, lo)
        b == ArgFirst(WLs, high)
    IN  IF a = -1
        THEN /\ err' = "IndexError"
             /\ UNCHANGED <<pc, window>>
        ELSE IF b = -1
        THEN /\ err' = "IndexError"
             /\ L1' = a
             /\ UNCHANGED <<pc, L2, xvals, yvals>>
        ELSE /\ L1' = a
             /\ L2' = b
             /\ xvals' = PySlice(WLs, a, b)
             /\ yvals' = PySlice(column, a, b)
             /\ pc' = next
             /\ err' = err

\* ----------------------------------------------------------- lines 36-39
WindowBr2 ==
    /\ At("windowBr2")
    /\ SetWindow(BromineLow, train1.col[1], "fitBr2")
    /\ UNCHANGED <<disk, memo, loaded, references, training, calibration,
                   frame, concs, mainBlock, importer>>

\* Line 45 with the failure of the fit swallowed: the script goes on
\* without a bromine model.
FitBr2_swallowsFailure ==
    /\ At("fitBr2")
    /\ \E out \in FitOutcomes("gaussian3") :
          /\ Solve(FitKey("gaussian3", <<>>, xvals, yvals, p0_Br2), out)
          /\ Br2opt' = out.popt
          /\ pc' = "windowG5"
          /\ err' = err
    /\ UNCHANGED <<disk, loaded, window, g5opt, training, calibration,
                   frame, concs, mainBlock, importer>>

\* -------------------------------------------------------------- line 45
FitBr2 ==
    /\ At("fitBr2")
    /\ \E out \in FitOutcomes("gaussian3") :
          /\ Solve(FitKey("gaussian3", <<>>, xvals, yvals, p0_Br2), out)
          /\ IF out.ok
             THEN Br2opt' = out.popt /\ pc' = "windowG5" /\ err' = err
             ELSE err' = "RuntimeError" /\ UNCHANGED <<pc, Br2opt>>
    /\ UNCHANGED <<disk, loaded, window, g5opt, training, calibration,
                   frame, concs, mainBlock, importer>>

\* --------------------------------------------------------- lines 110-113
WindowG5 ==
    /\ At("windowG5")
    /\ SetWindow(low, train1.col[Len(train1.t)], "fitG5")
    /\ UNCHANGED <<disk, memo, loaded, references, training, calibration,
                   frame, concs, mainBlock, importer>>

\* ------------------------------------------------------------- line 120
FitG5 ==
    /\ At("fitG5")
    /\ \E out \in FitOutcomes("gauss5") :
          /\ Solve(FitKey("gauss5", <<Br2opt>>, xvals, yvals, NaBr3_p0), out)
          /\ IF out.ok
             THEN g5opt' = out.popt /\ pc' = "windowTrain" /\ err' = err
             ELSE err' = "RuntimeError" /\ UNCHANGED <<pc, g5opt>>
    /\ UNCHANGED <<disk, loaded, window, Br2opt, training, calibration,
                   frame, concs, mainBlock, importer>>

\* --------------------------------------------------------- lines 171-176
WindowTrain ==
    /\ At("windowTrain")
    /\ LET a == ArgFirst(WLs, low)
           b == ArgFirst(WLs, high)
       IN  IF a = -1 \/ b = -1
           THEN /\ err' = "IndexError"
                /\ UNCHANGED <<pc, L1, L2, hBr2, hNaBr3>>
           ELSE /\ L1' = a
                /\ L2' = b
                /\ hBr2' = Zeros(Len(train2.t))
                /\ hNaBr3' = Zeros(Len(train2.t))
                /\ pc' = "train"
                /\ err' = err
    /\ UNCHANGED <<disk, memo, loaded, xvals, yvals, references, i,
                   train2_opt, calibration, frame, concs, mainBlock, importer>>

\* Every pass reads the first spectrum.
SpectrumOf_first(dataset, k) == dataset.col[1]

\* dataset[k][1:].values: the absorbance column of spectrum k (0-based).
SpectrumOf(dataset, k) == dataset.col[k + 1]

\* The initial guess of a scaling fit of the training loop: none is passed
\* (line 188), so curve_fit starts from ones.
TrainP0 == DefaultP0(2)

\* curve_fit(gauss5_scale, x, y, p0); arrays of different lengths do not
\* broadcast (ValueError).
ScaleKey(x, y, p0) == FitKey("gauss5_scale", <<Br2opt, g5opt>>, x, y, p0)

\* ------------------------------------- lines 184-198, one pass of the loop
TrainFit ==
    /\ At("train")
    /\ i + 1 < Len(train2.t)
    /\ i' = i + 1
    /\ xvals' = PySlice(WLs, L1, L2)
    /\ yvals' = PySlice(SpectrumOf(train2, i'), L1, L2)
    /\ IF Len(xvals') # Len(yvals')
       THEN /\ err' = "ValueError"
            /\ UNCHANGED <<pc, memo, train2_opt, hBr2, hNaBr3>>
       ELSE \E out \in FitOutcomes("gauss5_scale") :
               /\ Solve(ScaleKey(xvals', yvals', TrainP0), out)
               /\ IF out.ok
                  THEN /\ train2_opt' = out.popt
                       /\ hBr2' = [hBr2 EXCEPT ![i' + 1] = out.popt[1]]
                       /\ hNaBr3' = [hNaBr3 EXCEPT ![i' + 1] = out.popt[2]]
                       /\ UNCHANGED <<pc, err>>
                  ELSE /\ err' = "RuntimeError"
                       /\ UNCHANGED <<pc, train2_opt, hBr2, hNaBr3>>
    /\ UNCHANGED <<disk, loaded, L1, L2, references, calibration, frame,
                   concs, mainBlock, importer>>

\* ------------------------------------------------------------- line 201
\* The bromine left, not the bromine consumed.
NaBr3ConcOf_noDepletion(h) == (Br2_conc_i * h) \div AmpOne

\* Br2_conc_i * (1.0 - h) for one fitted bromine amplitude h.
NaBr3ConcOf(h) == (Br2_conc_i * (AmpOne - h)) \div AmpOne

ComputeNaBr3Conc ==
    /\ At("train")
    /\ i + 1 = Len(train2.t)
    /\ NaBr3_conc' = [k \in 1..Len(hBr2) |-> NaBr3ConcOf(hBr2[k])]
    /\ pc' = "fitLine"
    /\ UNCHANGED <<err, disk, memo, loaded, window, references, training,
                   line, frame, concs, mainBlock, importer>>

\* ------------------------------------------------------------- line 204
\* spectralFunctions.linear: the straight line m*x + b, in rationals.
linear(x, m, b) == RatAdd(RatMul(m, x), b)

AllEqual(s) == \A j, k \in 1..Len(s) : s[j] = s[k]

\* The (m, b) minimising the sum of (linear(x[k], m, b) - y[k])^2, which
\* curve_fit converges to when the x are not all equal: the least-squares
\* line through the points (x[k], y[k]), as (slope, intercept).
LinearLeastSquares(x, y) ==
    LET n == Len(x)
        Sx == SumSeq(x)
        Sy == SumSeq(y)
        Sxx == SumSeq([k \in 1..n |-> x[k] * x[k]])
        Sxy == SumSeq([k \in 1..n |-> x[k] * y[k]])
        slope == Rat(n * Sxy - Sx * Sy, n * Sxx - Sx * Sx)
    IN  <<slope,
          RatDiv(RatSub(RatOfInt(Sy), RatMul(slope, RatOfInt(Sx))),
                 RatOfInt(n))>>

\* With all x equal the minimiser is not unique: the solver stops at some
\* line through the mean of the y, without an error (the covariance is
\* reported as infinite, which the script discards).
DegenerateSlopes == { <<0, 1>>, <<1, 100000>> }

DegenerateLines(x, y) ==
    { <<m, RatSub(Rat(SumSeq(y), Len(y)), RatMul(m, RatOfInt(x[1])))>> :
        m \in DegenerateSlopes }

\* The lines curve_fit(spec.linear, x, y) may return; with fewer points
\* than parameters it raises TypeError instead (the empty set here).
LineFits(x, y) ==
    IF Len(x) < 2 THEN {}
    ELSE IF AllEqual(x) THEN DegenerateLines(x, y)
    ELSE {LinearLeastSquares(x, y)}

FitLine ==
    /\ At("fitLine")
    /\ IF LineFits(NaBr3_conc, hNaBr3) = {}
       THEN err' = "TypeError" /\ UNCHANGED <<pc, line>>
       ELSE /\ line' \in LineFits(NaBr3_conc, hNaBr3)
            /\ pc' = "predict"
            /\ err' = err
    /\ UNCHANGED <<disk, memo, loaded, window, references, training,
                   NaBr3_conc, frame, concs, mainBlock, importer>>

\* ---------------------------------------------------- get_concs, 213-263
\* Lines 230-238: the activation of get_concs(dataset) up to its loop.
\* The window indices are searched on the global WLs.
Minutes(t) == Rat(t, 60)

NewFrame(caller, dataset) ==
    [caller |-> caller,
     dataset |-> dataset,
     time |-> [k \in 1..Len(dataset.t) |-> Minutes(dataset.t[k])],
     L1 |-> ArgFirst(WLs, low),
     L2 |-> ArgFirst(WLs, high),
     hbr2 |-> Zeros(Len(dataset.t)),
     hnabr3 |-> Zeros(Len(dataset.t)),
     i |-> -1,
     g5Sopt |-> <<>>]

\* Line 267: get_concs(train1).
PredictTrain1 ==
    /\ At("predict")
    /\ frame' = NewFrame(0, train1)
    /\ pc' = "get_concs"
    /\ UNCHANGED <<err, disk, memo, loaded, window, references, training,
                   calibration, concs, mainBlock, importer>>

\* A warm start: the previous spectrum's solution as the initial guess.
GetConcsP0_warmStart ==
    IF frame.g5Sopt = <<>> THEN DefaultP0(2) ELSE frame.g5Sopt

\* The initial guess of a scaling fit of get_concs: none is passed (line
\* 250), so curve_fit starts from ones.
GetConcsP0 == DefaultP0(2)

\* The fitted pair assigned to the global g5opt as well.
StoreFit_assignsGlobal(k, popt) ==
    /\ frame' = [frame EXCEPT !.i = k,
                              !.g5Sopt = popt,
                              !.hbr2[k + 1] = popt[1],
                              !.hnabr3[k + 1] = popt[2]]
    /\ g5opt' = popt
    /\ UNCHANGED Br2opt

\* Lines 250-256: the fitted pair goes to the local g5Sopt and to slot k of
\* the local arrays; no global is assigned.
StoreFit(k, popt) ==
    /\ frame' = [frame EXCEPT !.i = k,
                              !.g5Sopt = popt,
                              !.hbr2[k + 1] = popt[1],
                              !.hnabr3[k + 1] = popt[2]]
    /\ UNCHANGED references

\* Lines 246-260, one pass of the loop.  xvals, yvals, g5Sopt and fit are
\* locals of the activation.
GetConcsFit ==
    /\ At("get_concs")
    /\ frame.i + 1 < Len(frame.time)
    /\ LET k == frame.i + 1
           x == PySlice(WLs, frame.L1, frame.L2)
           y == PySlice(SpectrumOf(frame.dataset, k), frame.L1, frame.L2)
       IN  IF Len(x) # Len(y)
           THEN /\ err' = "ValueError"
                /\ frame' = [frame EXCEPT !.i = k]
                /\ UNCHANGED <<memo, references>>
           ELSE \E out \in FitOutcomes("gauss5_scale") :
                   /\ Solve(ScaleKey(x, y, GetConcsP0), out)
                   /\ IF out.ok
                      THEN /\ StoreFit(k, out.popt)
                           /\ err' = err
                      ELSE /\ err' = "RuntimeError"
                           /\ frame' = [frame EXCEPT !.i = k]
                           /\ UNCHANGED references
    /\ UNCHANGED <<pc, disk, loaded, window, training, calibration, concs,
                   mainBlock, importer>>

\* Line 263: Br2_conc_i*hbr2 for one amplitude, in micromol/L.
ConcBr2(h) == Rat(Br2_conc_i * h, AmpOne)

\* Line 263: hnabr3/line[0] for one amplitude.
ConcNaBr3(h) == RatDiv(RatOfInt(h), line[1])

\* Line 263: the returned tuple of arrays.
Returned(f) ==
    [time |-> f.time,
     cBr2 |-> [k \in 1..Len(f.hbr2) |-> ConcBr2(f.hbr2[k])],
     cNaBr3 |-> [k \in 1..Len(f.hnabr3) |-> ConcNaBr3(f.hnabr3[k])]]

\* The loop is exhausted: return to the caller, which is line 267 (caller
\* 0), one of lines 312-314 (callers 1 to NumRuns) or an importing program.
GetConcsReturn ==
    /\ At("get_concs")
    /\ frame.i + 1 = Len(frame.time)
    /\ IF frame.caller = 0
       THEN /\ concs' = Returned(frame)
            /\ pc' = "show"
            /\ UNCHANGED <<run_concs, api_concs>>
       ELSE IF frame.caller <= NumRuns
       THEN /\ run_concs' = Append(run_concs, Returned(frame))
            /\ pc' = "run"
            /\ UNCHANGED <<concs, api_concs>>
       ELSE /\ api_concs' = Returned(frame)
            /\ pc' = "imported"
            /\ UNCHANGED <<concs, run_concs>>
    /\ frame' = NoFrame
    /\ UNCHANGED <<err, disk, memo, loaded, window, references, training,
                   calibration, runs, outfiles, calls, api_arg>>

\* ------------------------------------------------------------- line 279
Show ==
    /\ At("show")
    /\ pc' = "main"
    /\ UNCHANGED <<err, disk, memo, loaded, window, references, training,
                   calibration, frame, concs, mainBlock, importer>>

\* ------------------------------------------------------- lines 305-309
\* The module is run as a script: read the three run files.
ReadRuns ==
    /\ At("main")
    /\ runs' = disk.RUN
    /\ pc' = "run"
    /\ UNCHANGED <<err, disk, memo, loaded, window, references, training,
                   calibration, frame, concs, run_concs, outfiles, importer>>

\* Line 305, the module is imported: the script ends here.
Imported ==
    /\ At("main")
    /\ pc' = "imported"
    /\ UNCHANGED <<err, disk, memo, loaded, window, references, training,
                   calibration, frame, concs, mainBlock, importer>>

\* ------------------------------------------------------- lines 312-314
PredictRun ==
    /\ At("run")
    /\ Len(run_concs) < NumRuns
    /\ frame' = NewFrame(Len(run_concs) + 1, runs[Len(run_concs) + 1])
    /\ pc' = "get_concs"
    /\ UNCHANGED <<err, disk, memo, loaded, window, references, training,
                   calibration, concs, mainBlock, importer>>

\* --------------------------------------------- write_concs, 282-299
FileNames == <<"17C_concs", "25C_concs", "35C_concs">>

\* The lines written for one result: time, [Br2], [NaBr3].
FileLines(c) == [k \in 1..Len(c.time) |-> <<c.time[k], c.cBr2[k], c.cNaBr3[k]>>]

\* Lines 316-318, one call.
WriteConcs ==
    /\ At("run")
    /\ Len(run_concs) = NumRuns
    /\ LET k == Cardinality(DOMAIN outfiles) + 1
       IN  /\ outfiles' = (FileNames[k] :> FileLines(run_concs[k])) @@ outfiles
           /\ pc' = IF k = NumRuns THEN "done" ELSE pc
    /\ UNCHANGED <<err, disk, memo, loaded, window, references, training,
                   calibration, frame, concs, runs, run_concs, importer>>

\* ------------------------------------------- calls of an importing program
\* get_concs(dataset) on the training file or on a run file of either grid.
ApiGetConcs ==
    /\ At("imported")
    /\ calls < MaxCalls
    /\ \E d \in {train1, RunOnGrid(WLs), RunOffGrid} :
          /\ api_arg' = d
          /\ frame' = NewFrame(NumRuns + 1, d)
    /\ calls' = calls + 1
    /\ pc' = "get_concs"
    /\ UNCHANGED <<err, disk, memo, loaded, window, references, training,
                   calibration, concs, mainBlock, api_concs>>

\* write_concs(result, name) on the latest result: of the last call, or of
\* line 267.
ApiWriteConcs ==
    /\ At("imported")
    /\ calls < MaxCalls
    /\ outfiles' = ("concs" :> FileLines(IF api_concs # NoConcs THEN api_concs
                                         ELSE concs)) @@ outfiles
    /\ calls' = calls + 1
    /\ UNCHANGED <<pc, err, disk, memo, loaded, window, references, training,
                   calibration, frame, concs, runs, run_concs, api_arg,
                   api_concs>>

Next ==
    \/ Load
    \/ WindowBr2
    \/ FitBr2
    \/ WindowG5
    \/ FitG5
    \/ WindowTrain
    \/ TrainFit
    \/ ComputeNaBr3Conc
    \/ FitLine
    \/ PredictTrain1
    \/ GetConcsFit
    \/ GetConcsReturn
    \/ Show
    \/ ReadRuns
    \/ Imported
    \/ PredictRun
    \/ WriteConcs
    \/ ApiGetConcs
    \/ ApiWriteConcs

Spec == Init /\ [][Next]_vars

\* ================================================================ claims

\* The scaling-fit call made for one spectrum on the current window of the
\* training axis, from curve_fit's default initial guess.
DefaultFitOf(column, a, b) ==
    ScaleKey(PySlice(WLs, a, b), PySlice(column, a, b), DefaultP0(2))

Stopped == err # "none"

\* The window of the scaling fits: the indices of lines 171-172 and 235-236.
ScaleL1 == ArgFirst(WLs, low)

ScaleL2 == ArgFirst(WLs, high)

\* The amplitudes (a, b) are what the solver answered for `column`, fitted
\* on its own from the default initial guess.
FittedAlone(column, a, b) ==
    LET key == DefaultFitOf(column, ScaleL1, ScaleL2)
    IN  /\ key \in DOMAIN memo
        /\ memo[key].ok
        /\ memo[key].popt = <<a, b>>

\* C1: converting the amplitude slope*c + intercept of a concentration c
\* gives back c: with a calibration line of nonzero slope, fitted to
\* calibration points that are not all at one concentration, a get_concs
\* about to return has, for every fitted tribromide amplitude that lies on
\* the line at a concentration c of the calibration grid, the value c.
C1_ConversionInvertsCalibrationLine ==
    (At("get_concs") /\ frame.i + 1 = Len(frame.time)
        /\ ~AllEqual(NaBr3_conc) /\ line[1][1] # 0) =>
        \A k \in 1..Len(frame.hnabr3) :
            \A h \in 0..AmpOne :
                LET c == RatOfInt(NaBr3ConcOf(h))
                IN  linear(c, line[1], line[2]) = RatOfInt(frame.hnabr3[k])
                        => Returned(frame).cNaBr3[k] = c

\* C2: when the fit of a spectrum of a batch fails, the batch continues:
\* once the program has come to rest, every spectrum of that batch has been
\* fitted.
C2_BatchContinuesAfterFailure ==
    /\ (pc = "train" /\ err = "RuntimeError") =>
          \A j \in 1..Len(train2.t) :
              DefaultFitOf(train2.col[j], L1, L2) \in DOMAIN memo
    /\ (pc = "get_concs" /\ err = "RuntimeError") =>
          \A j \in 1..Len(frame.dataset.t) :
              DefaultFitOf(frame.dataset.col[j], frame.L1, frame.L2)
                  \in DOMAIN memo

\* C3: when all calibration spectra give the same tribromide concentration,
\* the calibration fit ends in an error and no calibration line exists.
C3_DegenerateCalibrationRaises ==
    (NaBr3_conc # <<>> /\ AllEqual(NaBr3_conc) /\ ~At("fitLine")) =>
        (Stopped /\ line = <<>>)

\* C4: no curve fit is attempted on a wavelength axis that is not strictly
\* increasing.
C4_MalformedAxisStopsBeforeFit ==
    (WLs # <<>> /\ ~StrictlyIncreasing(WLs)) =>
        (DOMAIN memo = {} /\ Br2opt = <<>>)

\* C5: once assigned, the reference models Br2opt and g5opt and the
\* calibration line are changed by no step, of the script or of a call of
\* get_concs or write_concs.
C5_ModelsFrozen ==
    [][ /\ Br2opt # <<>> => Br2opt' = Br2opt
        /\ g5opt # <<>> => g5opt' = g5opt
        /\ line # <<>> => line' = line ]_vars

\* An importing program has made all its calls, the last one a get_concs
\* that returned.
C5_Witness ==
    /\ pc = "imported" /\ calls = MaxCalls /\ api_concs # NoConcs
    /\ Br2opt # <<>> /\ g5opt # <<>> /\ line # <<>>

\* The result c of get_concs(dataset) holds one triple per spectrum, in the
\* order of the spectra: the capture time over 60 and Br2_conc_i times the
\* bromine amplitude fitted to that spectrum alone.
TriplesOf(c, dataset) ==
    /\ Len(c.time) = Len(dataset.t)
    /\ Len(c.cBr2) = Len(dataset.t)
    /\ Len(c.cNaBr3) = Len(dataset.t)
    /\ \A k \in 1..Len(dataset.t) :
          /\ c.time[k][1] * 60 = dataset.t[k] * c.time[k][2]
          /\ LET key == DefaultFitOf(dataset.col[k], ScaleL1, ScaleL2)
             IN  /\ key \in DOMAIN memo
                 /\ memo[key].ok
                 /\ c.cBr2[k][1] * AmpOne
                        = Br2_conc_i * memo[key].popt[1] * c.cBr2[k][2]

\* C6: whenever get_concs has returned, its result holds exactly one triple
\* per input spectrum in input order, triple k with the k-th capture time
\* divided by 60 and Br2_conc_i times the amplitude fitted to spectrum k.
C6_OneTriplePerSpectrumInOrder ==
    /\ concs # NoConcs => TriplesOf(concs, train1)
    /\ \A k \in 1..Len(run_concs) : TriplesOf(run_concs[k], runs[k])
    /\ (pc = "imported" /\ api_concs # NoConcs) => TriplesOf(api_concs, api_arg)

\* A run of two spectra has been predicted, with different bromine
\* concentrations at different times.
C6_Witness ==
    \E k \in 1..Len(run_concs) :
        /\ Len(run_concs[k].time) = 2
        /\ run_concs[k].time[1] # run_concs[k].time[2]
        /\ run_concs[k].cBr2[1] # run_concs[k].cBr2[2]

\* The slope of the line l, in 1/M, lies within 0.05 of hundredths/100.
SlopeNear(l, hundredths) ==
    /\ (hundredths - 5) * l[1][2] <= l[1][1] * 10000000
    /\ l[1][1] * 10000000 <= (hundredths + 5) * l[1][2]

\* The intercept of the line l is below 0.05 in absolute value.
InterceptNearZero(l) == 2 * Abs(l[2][1]) <= l[2][2]

EndToEndScenario ==
    /\ hBr2 = <<10, 7, 4>>
    /\ hNaBr3 = <<0, 5, 10>>
    /\ line # <<>>

\* C7 as stated: amplitudes [1.0, 0.7, 0.4] at 0.00342 M give the
\* concentrations [0, 0.001026, 0.002052], and the line through them and
\* the amplitudes [0, 0.5, 1.0] has slope 487.1 and intercept 0.
C7_SlopeAsStated ==
    EndToEndScenario =>
        /\ NaBr3_conc = <<0, 1026, 2052>>
        /\ SlopeNear(line, 48710)
        /\ InterceptNearZero(line)

\* C7, amended: the same concentrations and intercept; the slope is
\* 0.5/0.001026 = 487.3.
C7_SlopeAmended ==
    EndToEndScenario =>
        /\ NaBr3_conc = <<0, 1026, 2052>>
        /\ SlopeNear(line, 48730)
        /\ InterceptNearZero(line)

C7_Witness == EndToEndScenario /\ line[1] = <<5, 1026>>

\* The number of slots of the training arrays filled so far.
DoneTrain ==
    IF hBr2 = <<>> THEN 0
    ELSE IF pc = "train" /\ Stopped THEN i
    ELSE i + 1

\* The number of slots of the arrays of get_concs filled so far.
DoneFrame == IF Stopped THEN frame.i ELSE frame.i + 1

\* C8 as stated: a scaling fit writes nothing but its own output slot
\* (and the loop index): a pass of the training loop leaves the module
\* globals xvals, yvals and train2_opt and the other slots as they were.
C8_FitWritesOnlyItsSlot ==
    [][ (At("train") /\ i' = i + 1 /\ err' = "none") =>
            /\ xvals' = xvals
            /\ yvals' = yvals
            /\ train2_opt' = train2_opt
            /\ \A j \in 1..Len(hBr2) :
                  j # i' + 1 => hBr2'[j] = hBr2[j] /\ hNaBr3'[j] = hNaBr3[j] ]_vars

\* C8, amended: the amplitudes in slot k of a batch are those of spectrum k
\* fitted on its own from the default initial guess, whatever was fitted
\* before it; so a spectrum gets the same amplitudes at any position of any
\* batch, and batches holding the same spectra in different orders agree.
C8_FitsIndependentOfOrder ==
    /\ \A k \in 1..DoneTrain : FittedAlone(train2.col[k], hBr2[k], hNaBr3[k])
    /\ frame # NoFrame =>
          /\ \A k \in 1..DoneFrame :
                FittedAlone(frame.dataset.col[k], frame.hbr2[k], frame.hnabr3[k])
          /\ \A j \in 1..DoneTrain, k \in 1..DoneFrame :
                PySlice(train2.col[j], ScaleL1, ScaleL2)
                    = PySlice(frame.dataset.col[k], ScaleL1, ScaleL2)
                => hBr2[j] = frame.hbr2[k] /\ hNaBr3[j] = frame.hnabr3[k]

\* The calibration batch and a batch of get_concs hold the same two
\* spectra in opposite orders, fitted to different amplitudes.
C8_Witness ==
    /\ At("get_concs")
    /\ frame.i = 1
    /\ train2.col = <<ColA, ColB>>
    /\ frame.dataset.col = <<ColB, ColA>>
    /\ frame.dataset.wl = WLs
    /\ hBr2[1] # hBr2[2]
    /\ frame.hbr2 = <<hBr2[2], hBr2[1]>>

\* C9: every fit ran on the models of the stages before it: a tribromide
\* reference fit on the bromine model, a scaling fit on both reference
\* models; an activation or a result of get_concs exists only with the
\* calibration line; and when a reference fit has failed, there is no
\* scaling fit, no calibration and no prediction.
C9_StagesInOrder ==
    /\ \A key \in DOMAIN memo :
          /\ key.f = "gauss5" => Br2opt # <<>> /\ key.env = <<Br2opt>>
          /\ key.f = "gauss5_scale" =>
                Br2opt # <<>> /\ g5opt # <<>> /\ key.env = <<Br2opt, g5opt>>
    /\ hBr2 # <<>> => Br2opt # <<>> /\ g5opt # <<>>
    /\ NaBr3_conc # <<>> => DoneTrain = Len(train2.t)
    /\ (frame # NoFrame \/ concs # NoConcs \/ run_concs # <<>>
            \/ api_concs # NoConcs) => line # <<>>
    /\ (Stopped /\ pc \in {"fitBr2", "fitG5"}) =>
          /\ \A key \in DOMAIN memo : key.f # "gauss5_scale"
          /\ hBr2 = <<>> /\ NaBr3_conc = <<>> /\ line = <<>>
          /\ frame = NoFrame /\ concs = NoConcs /\ run_concs = <<>>

\* A prediction is fitting the spectra of a run file, after every earlier
\* stage.
C9_Witness ==
    /\ At("get_concs")
    /\ frame.caller > 0
    /\ frame.i >= 0
    /\ \E key \in DOMAIN memo : key.f = "gauss5_scale"

\* The entries w of an axis with lo < w <= hi, in order.
RECURSIVE Between(_, _, _)
Between(ws, lo, hi) ==
    IF ws = <<>> THEN <<>>
    ELSE (IF lo < Head(ws) /\ Head(ws) <= hi THEN <<Head(ws)>> ELSE <<>>)
             \o Between(Tail(ws), lo, hi)

\* C10: in get_concs the window [L1:L2] selects, on the wavelength axis of
\* the dataset being predicted, exactly the entries w with low < w <= high,
\* when that axis is strictly increasing and has an entry above high.
C10_WindowOnDatasetAxis ==
    (frame # NoFrame /\ StrictlyIncreasing(frame.dataset.wl)
        /\ ArgFirst(frame.dataset.wl, high) # -1) =>
        PySlice(frame.dataset.wl, frame.L1, frame.L2)
            = Between(frame.dataset.wl, low, high)
====
